---------------------------- MODULE Spec2Model ----------------------------
(***************************************************************************)
(* Model of lzma_tool.py: a command line driver (main) that validates its  *)
(* arguments, derives an output path, and streams one file through the     *)
(* XZ encoder (compress_file) or decoder (decompress_file) in chunks.      *)
(*                                                                         *)
(* A path is the tuple of its components (pathlib's `parts`), a component  *)
(* is a sequence of one-character strings, a file's content is a sequence  *)
(* of small naturals.  The file system is a function from the paths that   *)
(* exist to their node (a directory, or a regular file and its content).   *)
(***************************************************************************)
EXTENDS Integers, Sequences, FiniteSets, TLC

(***************************************************************************)
(* Bounds of the model.                                                    *)
(***************************************************************************)
MaxLen == 2        \* longest raw input content of a run of main
MaxRTLen == 4      \* longest raw content of the round trip
MaxNameLen == 4    \* longest file name given to the default-path functions

(***************************************************************************)
(* Program constants.  CHUNK_SIZE is 1024 * 1024 in the source; the model  *)
(* scales it down so that contents of a few bytes span several chunks,     *)
(* end exactly on a chunk boundary, or end inside a chunk.                 *)
(***************************************************************************)
CHUNK_SIZE == 2
DEFAULT_PRESET == 6
MIN_PRESET == 0
MAX_PRESET == 9

(***************************************************************************)
(* The XZ container as the codec library produces and accepts it: a stream *)
(* header (magic, then the encoder's preset-derived properties), one       *)
(* escaped literal per byte, and an end-of-stream marker.                  *)
(***************************************************************************)
XZ_MAGIC == 253
XZ_LIT == 254
XZ_EOS == 255

Byte == 0..1

Bool == {TRUE, FALSE}

Min(a, b) == IF a < b THEN a ELSE b

SeqsUpTo(S, n) == UNION {[1..k -> S] : k \in 0..n}

Prefix(s, k) == SubSeq(s, 1, k)

(***************************************************************************)
(* pathlib.PurePath on relative POSIX paths.                               *)
(***************************************************************************)
DOT == "."
SEP == "/"
XZ_EXT == <<".", "x", "z">>
OUT_EXT == <<".", "o", "u", "t">>

\* PurePath.name: the final component, empty for the path "."
Name(p) == IF p = <<>> THEN <<>> ELSE p[Len(p)]

\* PurePath.parent
Parent(p) == IF p = <<>> THEN <<>> ELSE SubSeq(p, 1, Len(p) - 1)

\* str.rfind('.') + 1: the 1-based index of the last dot, 0 when none
RFindDot(s) ==
    LET dots == {i \in 1..Len(s) : s[i] = DOT}
    IN  IF dots = {} THEN 0 ELSE CHOOSE i \in dots : \A j \in dots : j <= i

\* PurePath.suffix: name[i:] when 0 < i < len(name) - 1 (0-based i)
Suffix(p) ==
    LET name == Name(p)
        j == RFindDot(name)
    IN  IF 1 < j /\ j < Len(name) THEN SubSeq(name, j, Len(name)) ELSE <<>>

\* PurePath.with_suffix: replace the suffix, or append when there is none
WithSuffix(p, suffix) ==
    LET name == Name(p)
        old == Suffix(p)
        newname == IF old = <<>> THEN name \o suffix
                   ELSE SubSeq(name, 1, Len(name) - Len(old)) \o suffix
    IN  Parent(p) \o <<newname>>

RECURSIVE Join(_)
\* str(path): the components joined by "/", "." for the empty path
Join(p) ==
    IF Len(p) = 1 THEN p[1] ELSE p[1] \o <<SEP>> \o Join(Tail(p))

Str(p) == IF p = <<>> THEN <<DOT>> ELSE Join(p)

RECURSIVE Split(_, _, _)
\* Path(string): split on "/", dropping empty and "." components
Split(s, cur, acc) ==
    LET keep == IF cur = <<>> \/ cur = <<DOT>> THEN acc ELSE Append(acc, cur)
    IN  IF s = <<>> THEN keep
        ELSE IF Head(s) = SEP THEN Split(Tail(s), <<>>, keep)
        ELSE Split(Tail(s), Append(cur, Head(s)), acc)

PathOf(s) == Split(s, <<>>, <<>>)

\* variant: the extension is replaced by ".xz" instead of extended
default_output_for_compress_replace(input_path) ==
    WithSuffix(input_path, XZ_EXT)

default_output_for_compress(input_path) ==
    IF Suffix(input_path) # <<>>
    THEN WithSuffix(input_path, Suffix(input_path) \o XZ_EXT)
    ELSE PathOf(Str(input_path) \o XZ_EXT)

default_output_for_decompress(input_path) ==
    IF Suffix(input_path) = XZ_EXT
    THEN WithSuffix(input_path, <<>>)
    ELSE PathOf(Str(input_path) \o OUT_EXT)

(***************************************************************************)
(* The codec library (module lzma) as the two functions use it.            *)
(***************************************************************************)
Header(preset) == <<XZ_MAGIC, preset>>

RECURSIVE EncChunk(_)
\* LZMACompressor.compress(chunk): one escaped literal per byte, in order
EncChunk(chunk) ==
    IF chunk = <<>> THEN <<>>
    ELSE <<XZ_LIT, Head(chunk)>> \o EncChunk(Tail(chunk))

\* LZMAFile.write(chunk): the stream header goes out with the first data
EncWrite(data, hdr, preset, chunk) ==
    data \o (IF hdr THEN <<>> ELSE Header(preset)) \o EncChunk(chunk)

\* LZMAFile.close() in write mode: flush the header if still pending, then
\* the end-of-stream marker
EncClose(data, hdr, preset) ==
    data \o (IF hdr THEN <<>> ELSE Header(preset)) \o <<XZ_EOS>>

\* The complete stream the encoder produces for a whole content
Encode(c, preset) == Header(preset) \o EncChunk(c) \o <<XZ_EOS>>

DecResult(data, pos, st, exc) == [data |-> data, pos |-> pos, st |-> st, exc |-> exc]

RECURSIVE DecRead(_, _, _, _, _)
\* LZMAFile.read(n) on raw file content `raw`, the reader being at raw
\* position pos in decoder state st ("start": first stream not begun,
\* "body": inside a stream, "eos": end-of-stream marker seen, "end": done).
\* Returns at most n decoded bytes; returns as soon as a decoder call has
\* produced data and the stream ended; nothing is returned only at the end.
\* Data after the last stream that does not begin a stream is ignored.
DecRead(raw, pos, st, n, acc) ==
    IF Len(acc) = n \/ st = "end" THEN DecResult(acc, pos, st, "none")
    ELSE IF st = "start" THEN
        IF pos > Len(raw) THEN DecResult(<<>>, pos, st, "EOFError")
        ELSE IF raw[pos] # XZ_MAGIC THEN DecResult(<<>>, pos, st, "LZMAError")
        ELSE IF pos + 1 > Len(raw) THEN DecResult(<<>>, pos, st, "EOFError")
        ELSE IF raw[pos + 1] \notin MIN_PRESET..MAX_PRESET
             THEN DecResult(<<>>, pos, st, "LZMAError")
        ELSE DecRead(raw, pos + 2, "body", n, acc)
    ELSE IF st = "eos" THEN
        IF pos > Len(raw) THEN DecResult(<<>>, pos, "end", "none")
        ELSE IF raw[pos] # XZ_MAGIC THEN DecResult(<<>>, pos, "end", "none")
        ELSE DecRead(raw, pos, "start", n, acc)
    ELSE \* st = "body"
        IF pos > Len(raw) THEN
            IF acc # <<>> THEN DecResult(acc, pos, st, "none")
            ELSE DecResult(<<>>, pos, st, "EOFError")
        ELSE IF raw[pos] = XZ_EOS THEN
            IF acc # <<>> THEN DecResult(acc, pos + 1, "eos", "none")
            ELSE DecRead(raw, pos + 1, "eos", n, acc)
        ELSE IF raw[pos] = XZ_LIT THEN
            IF pos + 1 > Len(raw) THEN
                IF acc # <<>> THEN DecResult(acc, pos, st, "none")
                ELSE DecResult(<<>>, pos, st, "EOFError")
            ELSE DecRead(raw, pos + 2, "body", n, Append(acc, raw[pos + 1]))
        ELSE DecResult(<<>>, pos, st, "LZMAError")

\* BufferedReader.read(n) on a regular file: the next n bytes, fewer at the end
FileRead(raw, pos, n) ==
    LET last == Min(Len(raw), pos + n - 1)
    IN  DecResult(SubSeq(raw, pos, last), Min(pos + n, Len(raw) + 1), "plain", "none")

(***************************************************************************)
(* The file system.                                                        *)
(***************************************************************************)
Dir == [kind |-> "dir", data |-> <<>>]

File(data) == [kind |-> "file", data |-> data]

CWD == <<>>

\* Path.exists()
Exists(f, p) == p \in DOMAIN f

\* Path.is_file()
IsFile(f, p) == p \in DOMAIN f /\ f[p].kind = "file"

\* Path.is_dir()
IsDir(f, p) == p \in DOMAIN f /\ f[p].kind = "dir"

Put(f, p, node) == [q \in DOMAIN f \cup {p} |-> IF q = p THEN node ELSE f[q]]

Remove(f, p) == [q \in DOMAIN f \ {p} |-> f[q]]

\* The proper ancestors of a path and the path itself
Ancestors(p) == {Prefix(p, k) : k \in 0..Len(p)}

RECURSIVE MkdirP(_, _)
\* Path.mkdir(parents=True, exist_ok=True): nothing to do on a directory,
\* an error on anything else that exists, otherwise the missing ancestors
\* are made first
MkdirP(f, d) ==
    IF Exists(f, d) THEN [ok |-> IsDir(f, d), fs |-> f]
    ELSE LET up == MkdirP(f, Parent(d))
         IN  IF up.ok THEN [ok |-> TRUE, fs |-> Put(up.fs, d, Dir)]
             ELSE up

\* open(path, "wb"): creates or truncates a regular file in an existing
\* directory; fails on a directory and under a missing or non-directory parent
CanOpenWrite(f, p) ==
    /\ p # CWD
    /\ IsDir(f, Parent(p))
    /\ ~IsDir(f, p)

(***************************************************************************)
(* State.                                                                  *)
(***************************************************************************)
VARIABLES
    args,         \* the parsed command line (parse_args)
    fs,           \* the file system
    fs0,          \* the file system when the run started
    pc,           \* the position of the run
    rc,           \* the value main returned, -1 while it has not returned
    stderr,       \* number of lines printed to the error stream
    stdout,       \* number of lines printed to the output stream
    output_path,  \* main's local output_path
    call,         \* the running codec call: function, paths and preset
    handles,      \* number of open input and output streams
    pos,          \* read position of the input stream
    dstate,       \* state of the input stream's decoder
    chunk,        \* the chunk last read
    hdr_written,  \* the encoder has emitted its stream header
    exc,          \* the exception raised, "none" when none
    unlinked,     \* outcome of the cleanup's unlink: "no", "ok", "failed"
    npath,        \* argument of the default-path functions
    nres,         \* their result
    nop           \* which of them has been applied

vars == <<args, fs, fs0, pc, rc, stderr, stdout, output_path, call, handles,
          pos, dstate, chunk, hdr_written, exc, unlinked, npath, nres, nop>>

codecVars == <<handles, pos, dstate, chunk, hdr_written>>

nameVars == <<npath, nres, nop>>

mainVars == <<args, rc, stderr, stdout, output_path, unlinked>>

Modes == {"compress", "decompress"}

NoCall == [fn |-> "none", src |-> <<>>, dst |-> <<>>, preset |-> DEFAULT_PRESET]

NoHandles == [src |-> 0, dst |-> 0]

NoArgs == [mode |-> "compress", input |-> <<>>, has_output |-> FALSE,
           output |-> <<>>, preset |-> DEFAULT_PRESET, force |-> FALSE]

(***************************************************************************)
(* Inputs of a run of main.                                                *)
(***************************************************************************)
RawContents == SeqsUpTo(Byte, MaxLen)

Streams == {Encode(c, DEFAULT_PRESET) : c \in RawContents}

\* a valid stream cut off before its end-of-stream marker
TruncatedStreams == UNION {{Prefix(s, k) : k \in 1..(Len(s) - 1)} : s \in Streams}

\* data that is not XZ at all, or breaks off the format after the header
NotXZ == (RawContents \ {<<>>})
         \cup {Header(DEFAULT_PRESET) \o c : c \in RawContents \ {<<>>}}

\* a valid stream followed by garbage, and two streams one after the other
Trailing == {Encode(<<1>>, DEFAULT_PRESET) \o <<0>>,
             Encode(<<1>>, DEFAULT_PRESET) \o Encode(<<0>>, DEFAULT_PRESET)}

Contents == RawContents \cup Streams \cup TruncatedStreams \cup NotXZ \cup Trailing

OldContent == <<2>>

Absent == [kind |-> "none", data |-> <<>>]

InputPaths == {<<<<"x">>>>, <<<<"x", ".", "x", "z">>>>}

InputStates == {Absent, Dir} \cup {File(c) : c \in Contents}

OutputStates == {Absent, Dir, File(OldContent)}

\* -o absent, -o naming the input itself, a plain name, a name under a
\* directory that does not exist yet, a name under the input file
OutputArgs(input) ==
    {[given |-> FALSE, path |-> <<>>]}
    \cup {[given |-> TRUE, path |-> q] :
            q \in {input, <<<<"z">>>>, <<<<"d">>, <<"z">>>>, input \o <<<<"z">>>>}}

PresetArgs == {MIN_PRESET - 1, MIN_PRESET, MAX_PRESET, MAX_PRESET + 1}

\* main, lines 78 and 80: the output path the run resolves to
ResolvedOutput(a) ==
    IF a.has_output THEN a.output
    ELSE IF a.mode = "compress" THEN default_output_for_compress(a.input)
    ELSE default_output_for_decompress(a.input)

PlaceNode(f, p, node) ==
    IF node.kind = "none" \/ Exists(f, p) \/ ~MkdirP(f, Parent(p)).ok THEN f
    ELSE Put(MkdirP(f, Parent(p)).fs, p, node)

InitFs(a, inode, onode) ==
    PlaceNode(PlaceNode([q \in {CWD} |-> Dir], a.input, inode),
              ResolvedOutput(a), onode)

Init ==
    /\ \E mode \in Modes, input \in InputPaths, preset \in PresetArgs, force \in Bool :
         \E oarg \in OutputArgs(input), inode \in InputStates, onode \in OutputStates :
            /\ args = [mode |-> mode, input |-> input, has_output |-> oarg.given,
                       output |-> oarg.path, preset |-> preset, force |-> force]
            /\ fs = InitFs(args, inode, onode)
    /\ fs0 = fs
    /\ pc = "main"
    /\ rc = -1
    /\ stderr = 0
    /\ stdout = 0
    /\ output_path = <<>>
    /\ call = NoCall
    /\ handles = NoHandles
    /\ pos = 1
    /\ dstate = "plain"
    /\ chunk = <<>>
    /\ hdr_written = FALSE
    /\ exc = "none"
    /\ unlinked = "no"
    /\ npath = <<>>
    /\ nres = <<>>
    /\ nop = "none"

(***************************************************************************)
(* main.                                                                   *)
(***************************************************************************)
\* return <code> after printing one line to the error stream
Fail(code) ==
    /\ stderr' = stderr + 1
    /\ rc' = code
    /\ pc' = "done"

\* lines 69-72
CheckInput ==
    /\ pc = "main"
    /\ IF ~IsFile(fs, args.input)
       THEN Fail(1)
       ELSE pc' = "validate" /\ UNCHANGED <<stderr, rc>>
    /\ UNCHANGED <<args, fs, fs0, stdout, output_path, call, exc, unlinked>>
    /\ UNCHANGED <<codecVars, nameVars>>

\* variant: the upper limit is off by one
PresetInRange_off(preset) == MIN_PRESET <= preset /\ preset <= MAX_PRESET + 1

\* the range test of line 75
PresetInRange(preset) == MIN_PRESET <= preset /\ preset <= MAX_PRESET

\* lines 74-80
Validate ==
    /\ pc = "validate"
    /\ IF args.mode = "compress" /\ ~PresetInRange(args.preset)
       THEN Fail(1) /\ UNCHANGED output_path
       ELSE /\ output_path' = ResolvedOutput(args)
            /\ pc' = "guard"
            /\ UNCHANGED <<stderr, rc>>
    /\ UNCHANGED <<args, fs, fs0, stdout, call, exc, unlinked>>
    /\ UNCHANGED <<codecVars, nameVars>>

\* variant: the force flag is read the wrong way round
OutputBlocked_inverted(f, p, force) == Exists(f, p) /\ force

\* the test of line 82
OutputBlocked(f, p, force) == Exists(f, p) /\ ~force

\* lines 82-84
OverwriteGuard ==
    /\ pc = "guard"
    /\ IF OutputBlocked(fs, output_path, args.force)
       THEN Fail(1)
       ELSE pc' = "mkdir" /\ UNCHANGED <<stderr, rc>>
    /\ UNCHANGED <<args, fs, fs0, stdout, output_path, call, exc, unlinked>>
    /\ UNCHANGED <<codecVars, nameVars>>

IoOutcomes == {"ok", "OSError"}

CodecOutcomes == {"ok", "OSError", "LZMAError"}

\* line 86, outside the try block: an OSError leaves main uncaught
Mkdir ==
    /\ pc = "mkdir"
    /\ \E o \in IoOutcomes :
         LET made == MkdirP(fs, Parent(output_path))
         IN  IF o = "ok" /\ made.ok
             THEN fs' = made.fs /\ pc' = "call" /\ exc' = exc
             ELSE fs' = fs /\ pc' = "crashed" /\ exc' = "OSError"
    /\ UNCHANGED <<args, fs0, rc, stderr, stdout, output_path, call, unlinked>>
    /\ UNCHANGED <<codecVars, nameVars>>

\* lines 88-92
CallCodec ==
    /\ pc = "call"
    /\ call' = [fn |-> IF args.mode = "compress" THEN "compress" ELSE "decompress",
                src |-> args.input, dst |-> output_path, preset |-> args.preset]
    /\ pc' = "open_src"
    /\ UNCHANGED <<args, fs, fs0, rc, stderr, stdout, output_path, exc, unlinked>>
    /\ UNCHANGED <<codecVars, nameVars>>

\* variant: the output file is reported removed but left in place
Unlink_keep(f, p, o) == [ok |-> TRUE, fs |-> f]

\* Path.unlink(): fails on a directory, or as the file system decides
Unlink(f, p, o) ==
    IF o = "ok" /\ IsFile(f, p) THEN [ok |-> TRUE, fs |-> Remove(f, p)]
    ELSE [ok |-> FALSE, fs |-> f]

\* variant: the cleanup is limited to compress mode
ShouldUnlink_compress_only(f, p, mode) == Exists(f, p) /\ mode = "compress"

\* line 95: the cleanup runs whenever the output path exists, in either mode
ShouldUnlink(f, p, mode) == Exists(f, p)

\* lines 93-103; any other exception leaves main uncaught
Handler ==
    /\ pc = "raised"
    /\ IF exc = "LZMAError"
       THEN /\ Fail(2)
            /\ IF ShouldUnlink(fs, output_path, args.mode)
               THEN \E o \in IoOutcomes :
                      LET u == Unlink(fs, output_path, o)
                      IN  /\ fs' = u.fs
                          /\ unlinked' = IF u.ok THEN "ok" ELSE "failed"
               ELSE UNCHANGED <<fs, unlinked>>
       ELSE IF exc = "OSError"
       THEN Fail(3) /\ UNCHANGED <<fs, unlinked>>
       ELSE pc' = "crashed" /\ UNCHANGED <<fs, unlinked, stderr, rc>>
    /\ UNCHANGED <<args, fs0, stdout, output_path, call, exc>>
    /\ UNCHANGED <<codecVars, nameVars>>

\* lines 105-116: the two stat calls are outside the try block
Report ==
    /\ pc = "returned"
    /\ \E o \in IoOutcomes :
         IF o = "ok" /\ Exists(fs, args.input) /\ Exists(fs, output_path)
         THEN /\ stdout' = stdout + 2
              /\ rc' = 0
              /\ pc' = "done"
              /\ exc' = exc
         ELSE /\ pc' = "crashed"
              /\ exc' = "OSError"
              /\ UNCHANGED <<stdout, rc>>
    /\ UNCHANGED <<args, fs, fs0, stderr, output_path, call, unlinked>>
    /\ UNCHANGED <<codecVars, nameVars>>

(***************************************************************************)
(* compress_file and decompress_file.  Both are one `with` statement over  *)
(* the input stream and the output stream, around the same chunk loop; the *)
(* call record says which of the two is running.                           *)
(***************************************************************************)
Compressing == call.fn = "compress"

\* what the codec library can answer on the output side
DstOutcomes == IF Compressing THEN CodecOutcomes ELSE IoOutcomes

\* variant: only the output stream is closed
CloseStreams_leak(h) == [h EXCEPT !.dst = 0]

\* the `with` statement's exit: every stream that is open is closed
CloseStreams(h) == NoHandles

\* closing the encoder's stream flushes what it still holds to the file
FlushOnClose(f) ==
    IF Compressing /\ handles.dst > 0 /\ IsFile(f, call.dst)
    THEN Put(f, call.dst, File(EncClose(f[call.dst].data, hdr_written, call.preset)))
    ELSE f

\* an exception leaves the `with` statement: streams closed, then raised
Raise(e) ==
    /\ exc' = e
    /\ handles' = CloseStreams(handles)
    /\ pc' = "raised"

\* lines 12 and 21, first context manager: the input stream
OpenSrc ==
    /\ pc = "open_src"
    /\ \E o \in IoOutcomes :
         IF o = "ok" /\ IsFile(fs, call.src)
         THEN /\ handles' = [handles EXCEPT !.src = @ + 1]
              /\ pos' = 1
              /\ dstate' = IF Compressing THEN "plain" ELSE "start"
              /\ pc' = "open_dst"
              /\ exc' = exc
         ELSE Raise("OSError") /\ UNCHANGED <<pos, dstate>>
    /\ UNCHANGED <<fs, fs0, call, chunk, hdr_written, mainVars, nameVars>>

\* lines 12 and 21, second context manager: the output stream, created or
\* truncated; the encoder is set up before its file is opened
OpenDst ==
    /\ pc = "open_dst"
    /\ \E o \in DstOutcomes :
         LET e == IF Compressing /\ (o = "LZMAError" \/ ~PresetInRange(call.preset))
                  THEN "LZMAError"
                  ELSE IF o = "OSError" \/ ~CanOpenWrite(fs, call.dst)
                  THEN "OSError"
                  ELSE "none"
         IN  IF e = "none"
             THEN /\ fs' = Put(fs, call.dst, File(<<>>))
                  /\ handles' = [handles EXCEPT !.dst = @ + 1]
                  /\ hdr_written' = FALSE
                  /\ pc' = "read"
                  /\ exc' = exc
             ELSE Raise(e) /\ UNCHANGED <<fs, hdr_written>>
    /\ UNCHANGED <<fs0, call, pos, dstate, chunk, mainVars, nameVars>>

\* src.read(CHUNK_SIZE) of lines 14 and 23
ReadChunk(raw) ==
    IF Compressing THEN FileRead(raw, pos, CHUNK_SIZE)
    ELSE DecRead(raw, pos, dstate, CHUNK_SIZE, <<>>)

\* variant: the loop stops at the first short chunk, before writing it
LoopExit_short(c) == Len(c) < CHUNK_SIZE

\* lines 15 and 24: `if not chunk: break`
LoopExit(c) == c = <<>>

\* lines 14-16 and 23-25
Read ==
    /\ pc = "read"
    /\ \E o \in IoOutcomes :
         LET r == ReadChunk(fs[call.src].data)
             e == IF o # "ok" THEN o ELSE r.exc
         IN  IF e = "none"
             THEN /\ chunk' = r.data
                  /\ pos' = r.pos
                  /\ dstate' = r.st
                  /\ pc' = IF LoopExit(r.data) THEN "close" ELSE "write"
                  /\ UNCHANGED <<fs, handles, exc>>
             ELSE /\ Raise(e)
                  /\ fs' = FlushOnClose(fs)
                  /\ UNCHANGED <<chunk, pos, dstate>>
    /\ UNCHANGED <<fs0, call, hdr_written, mainVars, nameVars>>

\* dst.write(chunk) of lines 17 and 26
WriteChunk(data) ==
    IF Compressing THEN EncWrite(data, hdr_written, call.preset, chunk)
    ELSE data \o chunk

\* lines 17 and 26
Write ==
    /\ pc = "write"
    /\ \E o \in DstOutcomes :
         IF o = "ok"
         THEN /\ fs' = Put(fs, call.dst, File(WriteChunk(fs[call.dst].data)))
              /\ hdr_written' = (hdr_written \/ Compressing)
              /\ pc' = "read"
              /\ UNCHANGED <<handles, exc>>
         ELSE /\ Raise(o)
              /\ fs' = FlushOnClose(fs)
              /\ UNCHANGED hdr_written
    /\ UNCHANGED <<fs0, call, pos, dstate, chunk, mainVars, nameVars>>

\* the normal exit of the `with` statement: the output stream is closed,
\* then the input stream, also when closing the first one fails
Close ==
    /\ pc = "close"
    /\ \E o \in DstOutcomes :
         IF o = "ok"
         THEN /\ fs' = FlushOnClose(fs)
              /\ handles' = CloseStreams(handles)
              /\ pc' = "returned"
              /\ exc' = exc
         ELSE Raise(o) /\ fs' = fs
    /\ UNCHANGED <<fs0, call, pos, dstate, chunk, hdr_written, mainVars, nameVars>>

Codec == OpenSrc \/ OpenDst \/ Read \/ Write \/ Close

Next ==
    \/ CheckInput
    \/ Validate
    \/ OverwriteGuard
    \/ Mkdir
    \/ CallCodec
    \/ OpenSrc
    \/ OpenDst
    \/ Read
    \/ Write
    \/ Close
    \/ Handler
    \/ Report

Spec == Init /\ [][Next]_vars

TypeOK ==
    /\ pc \in {"main", "validate", "guard", "mkdir", "call", "open_src", "open_dst",
               "read", "write", "close", "returned", "raised", "done", "crashed"}
    /\ rc \in -1..3
    /\ exc \in {"none", "OSError", "LZMAError", "EOFError"}

(***************************************************************************)
(* Round trip: compress_file on a content, then decompress_file on the     *)
(* result, on a file system that holds only the input.                     *)
(***************************************************************************)
RT_IN == <<<<"x">>>>

RT_MID == <<<<"x", ".", "x", "z">>>>

RT_OUT == <<<<"o">>>>

RTContents == SeqsUpTo(Byte, MaxRTLen)

RTInit ==
    /\ \E c \in RTContents, p \in MIN_PRESET..MAX_PRESET :
         /\ fs = Put([q \in {CWD} |-> Dir], RT_IN, File(c))
         /\ args = [NoArgs EXCEPT !.input = RT_IN, !.preset = p]
    /\ fs0 = fs
    /\ pc = "rt_start"
    /\ rc = -1
    /\ stderr = 0
    /\ stdout = 0
    /\ output_path = <<>>
    /\ call = NoCall
    /\ handles = NoHandles
    /\ pos = 1
    /\ dstate = "plain"
    /\ chunk = <<>>
    /\ hdr_written = FALSE
    /\ exc = "none"
    /\ unlinked = "no"
    /\ npath = <<>>
    /\ nres = <<>>
    /\ nop = "none"

\* compress_file(input, mid, preset)
RTCompress ==
    /\ pc = "rt_start"
    /\ call' = [fn |-> "compress", src |-> RT_IN, dst |-> RT_MID, preset |-> args.preset]
    /\ pc' = "open_src"
    /\ UNCHANGED <<fs, fs0, exc, mainVars, codecVars, nameVars>>

\* decompress_file(mid, out) once compress_file has returned
RTDecompress ==
    /\ pc = "returned"
    /\ call.fn = "compress"
    /\ call' = [fn |-> "decompress", src |-> RT_MID, dst |-> RT_OUT, preset |-> args.preset]
    /\ pc' = "open_src"
    /\ UNCHANGED <<fs, fs0, exc, mainVars, codecVars, nameVars>>

RTFinish ==
    /\ pc = "returned"
    /\ call.fn = "decompress"
    /\ pc' = "rt_done"
    /\ UNCHANGED <<fs, fs0, call, exc, mainVars, codecVars, nameVars>>

\* either call raised: the round trip is abandoned
RTFail ==
    /\ pc = "raised"
    /\ pc' = "rt_failed"
    /\ UNCHANGED <<fs, fs0, call, exc, mainVars, codecVars, nameVars>>

RTNext ==
    \/ RTCompress
    \/ RTDecompress
    \/ RTFinish
    \/ RTFail
    \/ OpenSrc
    \/ OpenDst
    \/ Read
    \/ Write
    \/ Close

SpecRT == RTInit /\ [][RTNext]_vars

(***************************************************************************)
(* The default-path functions applied to the paths that can name a file:   *)
(* main derives a default only for a path that is_file() accepted, so the  *)
(* final component is never empty.                                         *)
(***************************************************************************)
NameChars == {".", "x", "z"}

Names == SeqsUpTo(NameChars, MaxNameLen) \ {<<>>, <<DOT>>}

NamePaths == {par \o <<n>> : par \in {<<>>, <<<<"d">>>>}, n \in Names}

NamesInit ==
    /\ npath \in NamePaths
    /\ nres = <<>>
    /\ nop = "none"
    /\ args = NoArgs
    /\ fs = [q \in {CWD} |-> Dir]
    /\ fs0 = fs
    /\ pc = "idle"
    /\ rc = -1
    /\ stderr = 0
    /\ stdout = 0
    /\ output_path = <<>>
    /\ call = NoCall
    /\ handles = NoHandles
    /\ pos = 1
    /\ dstate = "plain"
    /\ chunk = <<>>
    /\ hdr_written = FALSE
    /\ exc = "none"
    /\ unlinked = "no"

ApplyCompressDefault ==
    /\ nop = "none"
    /\ nres' = default_output_for_compress(npath)
    /\ nop' = "compress"
    /\ UNCHANGED <<npath, fs, fs0, pc, call, exc, mainVars, codecVars>>

ApplyDecompressDefault ==
    /\ nop = "none"
    /\ nres' = default_output_for_decompress(npath)
    /\ nop' = "decompress"
    /\ UNCHANGED <<npath, fs, fs0, pc, call, exc, mainVars, codecVars>>

\* the decompress default of the compress default
ApplyInverseDefault ==
    /\ nop = "compress"
    /\ nres' = default_output_for_decompress(nres)
    /\ nop' = "roundtrip"
    /\ UNCHANGED <<npath, fs, fs0, pc, call, exc, mainVars, codecVars>>

NamesNext ==
    \/ ApplyCompressDefault
    \/ ApplyDecompressDefault
    \/ ApplyInverseDefault

SpecNames == NamesInit /\ [][NamesNext]_vars

(***************************************************************************)
(* Properties.                                                             *)
(***************************************************************************)
Terminal == pc \in {"done", "crashed"}

\* the input named on the command line was a regular file when the run began
InputOk == IsFile(fs0, args.input)

Resolved == ResolvedOutput(args)

PresetOutOfRange == args.preset < 0 \/ args.preset > 9

ValidationPasses == args.mode = "compress" => ~PresetOutOfRange

\* C1: when the input is a regular file, validation passes, the resolved
\* output path exists and --force is absent, the run returns 1 and the
\* existing output is never opened, truncated or removed: the file system
\* stays as it was and no output stream is ever open.
C1_OverwriteGuard ==
    (InputOk /\ ValidationPasses /\ Exists(fs0, Resolved) /\ ~args.force) =>
        /\ fs = fs0
        /\ handles.dst = 0
        /\ pc # "crashed"
        /\ (pc = "done" => rc = 1 /\ stderr = 1 /\ stdout = 0)

C1_Witness ==
    /\ pc = "done"
    /\ rc = 1
    /\ InputOk
    /\ ValidationPasses
    /\ ~args.has_output
    /\ ~args.force
    /\ IsFile(fs0, Resolved)
    /\ fs[Resolved] = File(OldContent)

\* C2: when compress_file and then decompress_file both return, the output
\* holds exactly the content of the input, for every content and every
\* preset 0..9; the intermediate file is the encoder's stream of the whole
\* content (every chunk passed once, in order).
C2_RoundTrip ==
    pc = "rt_done" =>
        /\ IsFile(fs, RT_OUT)
        /\ fs[RT_OUT].data = fs0[RT_IN].data
        /\ fs[RT_MID].data = Encode(fs0[RT_IN].data, args.preset)
        /\ fs[RT_IN] = fs0[RT_IN]

\* a content of more than one chunk whose length is not a multiple of the
\* chunk size has made the round trip
C2_Witness ==
    /\ pc = "rt_done"
    /\ Len(fs0[RT_IN].data) = CHUNK_SIZE + 1
    /\ fs[RT_OUT].data = fs0[RT_IN].data

\* C3: in decompress mode a malformed or truncated input stream ends the
\* run with exit code 2, one diagnostic line and no success message
\* (runs stopped by the overwrite guard or by a file system failure apart).
C3_MalformedIsCodecError ==
    (/\ Terminal
     /\ args.mode = "decompress"
     /\ InputOk
     /\ fs0[args.input].data \in TruncatedStreams \cup NotXZ
     /\ ~(Exists(fs0, Resolved) /\ ~args.force)
     /\ exc # "OSError")
    => (pc = "done" /\ rc = 2 /\ stderr = 1 /\ stdout = 0)

\* C4: no failure escapes main: every run ends by returning a code in
\* 0..3, with exactly one diagnostic line when the code is not 0.
C4_NoUncaughtFault ==
    /\ pc # "crashed"
    /\ (pc = "done" => rc \in 0..3 /\ (rc # 0 => stderr = 1))

\* C5 as stated: with an existing input and a preset outside 0..9, in
\* either mode, the run touches nothing (no stream opened, no file or
\* directory created) and the only code it returns is 1.
C5_PresetBoundAnyMode ==
    (InputOk /\ PresetOutOfRange) =>
        /\ fs = fs0
        /\ handles = NoHandles
        /\ (pc = "done" => rc = 1)

\* C5 amended: in compress mode, with an existing input and a preset
\* outside 0..9, the run returns 1 and touches nothing (no stream opened,
\* no file or directory created); in decompress mode the preset is not
\* validated: an existing input is only ever refused with code 1 by the
\* overwrite guard.
C5_PresetBoundCompress ==
    /\ (args.mode = "compress" /\ InputOk /\ PresetOutOfRange) =>
          /\ fs = fs0
          /\ handles = NoHandles
          /\ (Terminal => pc = "done" /\ rc = 1 /\ stderr = 1 /\ stdout = 0)
    /\ (args.mode = "decompress" /\ InputOk /\ pc = "done" /\ rc = 1) =>
          (Exists(fs0, Resolved) /\ ~args.force)

\* an out-of-range preset, and nothing else, has stopped a compress run
C5_Witness ==
    /\ pc = "done"
    /\ rc = 1
    /\ args.mode = "compress"
    /\ InputOk
    /\ args.preset = 10
    /\ ~Exists(fs0, Resolved)
    /\ fs = fs0

\* C6: the input file keeps its content through every run, and nothing but
\* the output path and its parent directories is created, changed or removed.
C6_InputNeverMutated ==
    /\ Exists(fs0, args.input) =>
          (Exists(fs, args.input) /\ fs[args.input] = fs0[args.input])
    /\ \A p \in (DOMAIN fs \cup DOMAIN fs0) \ Ancestors(Resolved) :
          p \in DOMAIN fs /\ p \in DOMAIN fs0 /\ fs[p] = fs0[p]

\* C7: a compress run whose codec call raised a codec error returns 2 with
\* one diagnostic line, and its output path is gone afterwards unless the
\* removal itself failed; a failed removal changes nothing else.
C7_CompressCleanup ==
    (Terminal /\ args.mode = "compress" /\ exc = "LZMAError") =>
        /\ pc = "done"
        /\ rc = 2
        /\ stderr = 1
        /\ stdout = 0
        /\ (Exists(fs, output_path) => unlinked = "failed")
        /\ (unlinked = "ok" => ~Exists(fs, output_path))

\* the encoder failed after data had been written, and the partial output
\* has been removed
C7_Witness ==
    /\ pc = "done"
    /\ args.mode = "compress"
    /\ exc = "LZMAError"
    /\ hdr_written
    /\ unlinked = "ok"
    /\ ~Exists(fs, output_path)

\* the name ends with the extension and has something before it
HasExtension(name, ext) ==
    /\ Len(name) > Len(ext)
    /\ SubSeq(name, Len(name) - Len(ext) + 1, Len(name)) = ext

\* C8: the compress default is the path with ".xz" appended to its file
\* name; the decompress default is the path without its last extension when
\* that is exactly ".xz", and with ".out" appended otherwise; the decompress
\* default of the compress default is the path itself.
C8_DefaultPaths ==
    LET name == Name(npath)
        dir == Parent(npath)
    IN  /\ nop = "compress" => nres = dir \o <<name \o XZ_EXT>>
        /\ nop = "decompress" =>
              nres = IF HasExtension(name, XZ_EXT)
                     THEN dir \o <<SubSeq(name, 1, Len(name) - Len(XZ_EXT))>>
                     ELSE dir \o <<name \o OUT_EXT>>
        /\ nop = "roundtrip" => nres = npath

\* a name that already has an extension has been through both functions
C8_Witness ==
    /\ nop = "roundtrip"
    /\ npath = <<<<"d">>, <<"x", ".", "z">>>>
    /\ nres = npath

\* C9: at most one input and one output stream are ever open, and none is
\* open outside the `with` statement: whenever control is back in the
\* caller, by return or by exception, both have been closed.
C9_StreamsClosed ==
    /\ handles.src <= 1
    /\ handles.dst <= 1
    /\ (pc \notin {"open_dst", "read", "write", "close"} => handles = NoHandles)
    /\ (pc \in {"read", "write", "close"} => handles = [src |-> 1, dst |-> 1])

\* an exception raised in the middle of the loop has reached main
C9_Witness ==
    /\ pc = "raised"
    /\ pos > 1
    /\ exc \in {"LZMAError", "OSError"}
    /\ handles = NoHandles

\* C10: decompress_file creates or truncates the output before the first
\* chunk is decoded; a run that returns 2, in either mode, leaves no output
\* path behind unless the unlink failed; a run that returns 3 removes
\* nothing and leaves the partial output in place.
C10_DecompressCleanup ==
    /\ (call.fn = "decompress" /\ pc \in {"read", "write", "close"}) =>
          IsFile(fs, call.dst)
    /\ (call.fn = "decompress" /\ pc = "read" /\ dstate = "start") =>
          fs[call.dst] = File(<<>>)
    /\ (pc = "done" /\ rc = 2) =>
          (~Exists(fs, output_path) \/ unlinked = "failed")
    /\ (pc = "done" /\ rc = 3) =>
          /\ unlinked = "no"
          /\ (Exists(fs0, output_path) => Exists(fs, output_path))
          /\ (chunk # <<>> => IsFile(fs, output_path))

\* a forced decompress run on a corrupt input has destroyed the output file
\* that existed before the run
C10_Witness ==
    /\ pc = "done"
    /\ rc = 2
    /\ args.mode = "decompress"
    /\ args.force
    /\ output_path # args.input
    /\ IsFile(fs0, output_path)
    /\ fs0[output_path] = File(OldContent)
    /\ ~Exists(fs, output_path)
    /\ unlinked = "ok"

=============================================================================
